---------------------------- MODULE Spec2Model ----------------------------
(***************************************************************************)
(* Model of api/gerar.py: the CAF code parser (parse_caf, CAF_RE), the     *)
(* spreadsheet lookup (ler_identificadores_unicos_ordenados), the combo    *)
(* expansion (gerar_combos) and the POST handler (handler.do_POST).        *)
(*                                                                         *)
(* A Python str is a sequence of one-character strings.  Python None, a    *)
(* dict and an unassigned local are tagged records.                        *)
(***************************************************************************)
EXTENDS Integers, Sequences, FiniteSets, TLC

VARIABLES
    planilha,   \* the file at PLANILHA: [exists, width, rows]
    body,       \* the request body of the POST being answered
    snap,       \* the file as it was when that POST was answered
    src,        \* the fields the input string was written from
    caf,        \* the string given to parse_caf (caf_in in do_POST)
    parsed,     \* parse_caf's result
    mes,        \* the month asked of the spreadsheet
    ano,        \* the year asked of the spreadsheet
    ids,        \* ler_identificadores_unicos_ordenados's outcome
    combos,     \* gerar_combos's result
    sent,       \* the responses _send_json wrote for this POST, in order
    raised,     \* whether an exception left do_POST
    seen        \* the exchanges answered so far: [body, snap, sent]

vars == <<planilha, body, snap, src, caf, parsed, mes, ano, ids, combos,
          sent, raised, seen>>

-----------------------------------------------------------------------------
(* Bounds of the model *)

MaxRows == 3        \* rows of a generated sheet, header included
MaxIns == 2         \* whitespace characters inserted into one input string
MaxFlips == 2       \* letters of one input string whose case is changed
MaxIds == 3         \* length of the identifier list handed to gerar_combos

-----------------------------------------------------------------------------
(* Characters and the str methods the code calls *)

Digits == <<"0", "1", "2", "3", "4", "5", "6", "7", "8", "9">>

UpperLetters == <<"A", "B", "C", "F", "S", "P", "X">>

LowerLetters == <<"a", "b", "c", "f", "s", "p", "x">>

Range(s) == {s[i] : i \in DOMAIN s}

IsDigit(c) == c \in Range(Digits)

\* str.isspace over the characters of the model: space, tab, newline
IsSpace(c) == c \in {" ", "\t", "\n"}

IsUpper(c) == c \in Range(UpperLetters)

IsLower(c) == c \in Range(LowerLetters)

IndexOf(s, c) == CHOOSE i \in DOMAIN s : s[i] = c

UpperChar(c) == IF IsLower(c) THEN UpperLetters[IndexOf(LowerLetters, c)] ELSE c

LowerChar(c) == IF IsUpper(c) THEN LowerLetters[IndexOf(UpperLetters, c)] ELSE c

\* str.upper()
Upper(s) == [i \in DOMAIN s |-> UpperChar(s[i])]

RECURSIVE LStrip(_)
LStrip(s) == IF s # <<>> /\ IsSpace(Head(s)) THEN LStrip(Tail(s)) ELSE s

RECURSIVE RStrip(_)
RStrip(s) ==
    IF s # <<>> /\ IsSpace(s[Len(s)]) THEN RStrip(SubSeq(s, 1, Len(s) - 1)) ELSE s

\* str.strip()
Strip(s) == RStrip(LStrip(s))

NotBlank(c) == c # " "

\* str.replace(" ", "")
ReplaceSpaces(s) == SelectSeq(s, NotBlank)

RECURSIVE Concat(_)
Concat(ss) == IF ss = <<>> THEN <<>> ELSE Head(ss) \o Concat(Tail(ss))

-----------------------------------------------------------------------------
(* CAF_RE and parse_caf *)

None == [tag |-> "None"]

Unset == [tag |-> "unset"]

\* [A-Z] under re.IGNORECASE
IsAlpha(c) == IsUpper(c) \/ IsLower(c)

AllDigits(s) == \A i \in DOMAIN s : IsDigit(s[i])

AllSpace(s) == \A i \in DOMAIN s : IsSpace(s[i])

\* (\*\*|XX|\d{2}) under re.IGNORECASE
IsIdentSlot(s) ==
    \/ s = <<"*", "*">>
    \/ Upper(s) = <<"X", "X">>
    \/ Len(s) = 2 /\ AllDigits(s)

\* the length of the text between the leading \s* and the trailing \s*
CodeLen == 24

\* The groups of the pattern, by the position each has in a 24-character code
GroupsOf(t) ==
    [UF    |-> SubSeq(t, 1, 2),
     MES   |-> SubSeq(t, 3, 4),
     ANO   |-> SubSeq(t, 5, 8),
     COD1  |-> SubSeq(t, 10, 11),
     COD2  |-> SubSeq(t, 13, 14),
     IDENT |-> SubSeq(t, 15, 16),
     TAIL  |-> SubSeq(t, 17, 21)]

\* Whether the 24 characters t are UF MES ANO . COD1 . COD2 IDENT TAIL CAF
MatchesCode(t) ==
    /\ Len(t) = CodeLen
    /\ \A i \in 1..2 : IsAlpha(t[i])
    /\ AllDigits(SubSeq(t, 3, 8))
    /\ t[9] = "."
    /\ AllDigits(SubSeq(t, 10, 11))
    /\ t[12] = "."
    /\ AllDigits(SubSeq(t, 13, 14))
    /\ IsIdentSlot(SubSeq(t, 15, 16))
    /\ AllDigits(SubSeq(t, 17, 21))
    /\ Upper(SubSeq(t, 22, 24)) = <<"C", "A", "F">>

\* CAF_RE.match(s): ^\s* , the code, \s*$ ; the groupdict on a match.
\* The code starts with a letter, so the leading \s* takes exactly the
\* whitespace s starts with.
MatchAt(s, lead) ==
    IF /\ Len(s) >= lead + CodeLen
       /\ MatchesCode(SubSeq(s, lead + 1, lead + CodeLen))
       /\ AllSpace(SubSeq(s, lead + CodeLen + 1, Len(s)))
    THEN [tag |-> "match", d |-> GroupsOf(SubSeq(s, lead + 1, lead + CodeLen))]
    ELSE None

CAF_RE_match(s) == MatchAt(s, Len(s) - Len(LStrip(s)))

\* Line 44 without its strip()
NormalizeNoStrip(s) == ReplaceSpaces(Upper(s))

\* caf.strip().upper().replace(" ", "")
Normalize(s) == ReplaceSpaces(Upper(Strip(s)))

\* Lines 46-50: None without a match, else the groupdict and the normalized text
Groupdict(m, caf_n) ==
    IF m = None THEN None ELSE [tag |-> "dict", d |-> m.d, CAF_NORMALIZADO |-> caf_n]

\* Lines 45-50 on the normalized text caf_n
MatchNormalized(caf_n) == Groupdict(CAF_RE_match(caf_n), caf_n)

parse_caf(s) == IF s = <<>> THEN None ELSE MatchNormalized(Normalize(s))

-----------------------------------------------------------------------------
(* Cell values of the sheet and the coercions the code applies to them *)

NoneCell == [t |-> "none"]

IntCell(n) == [t |-> "int", v |-> n]

\* a float: its integer part and the digits str() prints after the point
FloatCell(n, frac) == [t |-> "float", v |-> n, frac |-> frac]

StrCell(s) == [t |-> "str", s |-> s]

Str(s) == [tag |-> "str", s |-> s]

Failed == [ok |-> FALSE]

Ok(n) == [ok |-> TRUE, v |-> n]

DigitValue(c) == IndexOf(Digits, c) - 1

RECURSIVE DigitsValue(_)
DigitsValue(s) ==
    IF s = <<>> THEN 0
    ELSE 10 * DigitsValue(SubSeq(s, 1, Len(s) - 1)) + DigitValue(s[Len(s)])

\* The digits ds under the sign of the stripped text t
Signed(t, ds) ==
    IF ds # <<>> /\ AllDigits(ds)
    THEN Ok((IF Head(t) = "-" THEN 0 - 1 ELSE 1) * DigitsValue(ds))
    ELSE Failed

IntOfStripped(t) ==
    IF t # <<>> /\ Head(t) \in {"+", "-"} THEN Signed(t, Tail(t)) ELSE Signed(t, t)

\* int(s) of a str: whitespace around, an optional sign, decimal digits
IntOfStr(s) == IntOfStripped(Strip(s))

\* int(x) of a cell value that is not None
PyInt(cell) ==
    CASE cell.t = "int"   -> Ok(cell.v)
      [] cell.t = "float" -> Ok(cell.v)
      [] cell.t = "str"   -> IntOfStr(cell.s)
      [] OTHER            -> Failed

RECURSIVE DecStr(_)
\* str(n) of an int
DecStr(n) ==
    IF n < 0 THEN <<"-">> \o DecStr(0 - n)
    ELSE IF n < 10 THEN <<Digits[n + 1]>>
    ELSE DecStr(n \div 10) \o <<Digits[(n % 10) + 1]>>

\* f"{n:02d}"
Format02d(n) == LET s == DecStr(n) IN IF Len(s) < 2 THEN <<"0">> \o s ELSE s

\* str(x) of a cell value
PyStr(cell) ==
    CASE cell.t = "int"   -> DecStr(cell.v)
      [] cell.t = "float" -> DecStr(cell.v) \o <<".">> \o cell.frac
      [] cell.t = "str"   -> cell.s
      [] OTHER            -> <<"N", "o", "n", "e">>

-----------------------------------------------------------------------------
(* ler_identificadores_unicos_ordenados *)

PLANILHA == <<"dados/GABARITO.xlsx">>

NoFile == [exists |-> FALSE, rows |-> <<>>]

File(rows) == [exists |-> TRUE, rows |-> rows]

\* f"{int(x):02d}" of the result r of int(x), None on an exception
MesOfInt(r) == IF r.ok THEN Str(Format02d(r.v)) ELSE None

\* f"{int(mes_val):02d}" if mes_val is not None else None, None on an exception
MesOk(mes_val) == IF mes_val = NoneCell THEN None ELSE MesOfInt(PyInt(mes_val))

\* str(int(x)) of the result r of int(x), None on an exception
AnoOfInt(r) == IF r.ok THEN Str(DecStr(r.v)) ELSE None

\* str(int(ano_val)) if ano_val is not None else None, None on an exception
AnoOk(ano_val) == IF ano_val = NoneCell THEN None ELSE AnoOfInt(PyInt(ano_val))

\* Lines 86-88: cod is kept the first time it is seen
Record(st, cod) ==
    IF cod \notin st.vistos
    THEN [st EXCEPT !.vistos = @ \cup {cod}, !.ids = Append(@, cod)]
    ELSE st

\* AddIdent without the range test of line 84
AddIdent_AnyNumber(st, n) == IF ~n.ok THEN st ELSE Record(st, Format02d(n.v))

\* Lines 80-88 with n the result of int(str(ident_val).strip()): a failure
\* skips the row, and so does a number outside 0..99
AddIdent(st, n) ==
    IF ~n.ok THEN st
    ELSE IF 0 <= n.v /\ n.v <= 99 THEN Record(st, Format02d(n.v))
    ELSE st

\* row[5] if len(row) >= 6 else None
IdentVal(row) == IF Len(row) >= 6 THEN row[6] ELSE NoneCell

\* The body of the for loop on one row; st = [exc, vistos, ids, reads] counts
\* the row as read.  row[1] and row[2] raise IndexError on a row of fewer
\* than three cells.
RowBody(row, m, a, st) ==
    IF Len(row) < 3 THEN [st EXCEPT !.exc = "IndexError"]
    ELSE IF MesOk(row[2]) = Str(m) /\ AnoOk(row[3]) = Str(a)
    THEN AddIdent(st, IntOfStr(Strip(PyStr(IdentVal(row)))))
    ELSE st

RowStep(row, m, a, st) == RowBody(row, m, a, [st EXCEPT !.reads = @ + 1])

RECURSIVE IterRows(_, _, _, _, _)
\* for row in ws.iter_rows(min_row=i, values_only=True)
IterRows(rows, i, m, a, st) ==
    IF i > Len(rows) \/ st.exc # "none" THEN st
    ELSE IterRows(rows, i + 1, m, a, RowStep(rows[i], m, a, st))

RECURSIVE Insert(_, _)
\* x put after the elements of the sorted list s whose key int(.) is not greater
Insert(s, x) ==
    IF s = <<>> THEN <<x>>
    ELSE IF IntOfStr(x).v < IntOfStr(Head(s)).v THEN <<x>> \o s
    ELSE <<Head(s)>> \o Insert(Tail(s), x)

RECURSIVE SortByInt(_)
\* ids.sort(key=lambda x: int(x)), a stable sort
SortByInt(s) ==
    IF s = <<>> THEN <<>>
    ELSE Insert(SortByInt(SubSeq(s, 1, Len(s) - 1)), s[Len(s)])

\* The first row the loop reads: min_row=2 skips the header
MinRow == 2

\* The outcome of the call: [exc, ids, reads]; ids is the returned list when
\* exc = "none", reads the number of rows the loop took from the sheet.
\* Lines 90-91 after the loop ended in st, or the exception that ended it
Finish(st) ==
    IF st.exc # "none"
    THEN [exc |-> st.exc, ids |-> <<>>, reads |-> st.reads]
    ELSE [exc |-> "none", ids |-> SortByInt(st.ids), reads |-> st.reads]

\* The lookup without the test of lines 54-55: a missing file reads as a
\* sheet without rows
ler_MissingAsEmpty(file, m, a) ==
    Finish(IterRows(file.rows, MinRow, m, a,
                    [exc |-> "none", vistos |-> {}, ids |-> <<>>, reads |-> 0]))

\* The lookup on a workbook kept from the request before, when there was one
ler_Cached(file, m, a) ==
    IF snap # Unset /\ snap.exists
    THEN Finish(IterRows(snap.rows, MinRow, m, a,
                         [exc |-> "none", vistos |-> {}, ids |-> <<>>, reads |-> 0]))
    ELSE IF ~file.exists
    THEN [exc |-> "FileNotFoundError", ids |-> <<>>, reads |-> 0]
    ELSE Finish(IterRows(file.rows, MinRow, m, a,
                         [exc |-> "none", vistos |-> {}, ids |-> <<>>, reads |-> 0]))

ler_identificadores_unicos_ordenados(file, m, a) ==
    IF ~file.exists
    THEN [exc |-> "FileNotFoundError", ids |-> <<>>, reads |-> 0]
    ELSE Finish(IterRows(file.rows, MinRow, m, a,
                         [exc |-> "none", vistos |-> {}, ids |-> <<>>, reads |-> 0]))

-----------------------------------------------------------------------------
(* gerar_combos *)

\* re.fullmatch(r"\d{2}", ident)
IsTwoDigits(ident) == Len(ident) = 2 /\ AllDigits(ident)

Prefixo(d) == d.UF \o d.MES \o d.ANO \o <<".">> \o d.COD1 \o <<".">> \o d.COD2

TailOf(d) == d.TAIL \o <<"C", "A", "F">>

\* gerar_combos without the membership test of line 103: a literal IDENT is
\* returned whether the list holds it or not
gerar_combos_Unvalidated(d, ids_lista) ==
    IF IsTwoDigits(d.IDENT)
    THEN <<Prefixo(d) \o d.IDENT \o TailOf(d)>>
    ELSE [i \in DOMAIN ids_lista |-> Prefixo(d) \o ids_lista[i] \o TailOf(d)]

\* gerar_combos taking every IDENT but ** for a literal
gerar_combos_StarOnly(d, ids_lista) ==
    IF d.IDENT # <<"*", "*">>
    THEN IF d.IDENT \in Range(ids_lista)
         THEN <<Prefixo(d) \o d.IDENT \o TailOf(d)>>
         ELSE <<>>
    ELSE [i \in DOMAIN ids_lista |-> Prefixo(d) \o ids_lista[i] \o TailOf(d)]

gerar_combos(d, ids_lista) ==
    LET prefixo == Prefixo(d)
        tail    == TailOf(d)
        ident   == d.IDENT
    IN  IF IsTwoDigits(ident)
        THEN IF ident \in Range(ids_lista)
             THEN <<prefixo \o ident \o tail>>
             ELSE <<>>
        ELSE [i \in DOMAIN ids_lista |-> prefixo \o ids_lista[i] \o tail]

-----------------------------------------------------------------------------
(* handler.do_POST and _send_json *)

List(v) == [tag |-> "list", v |-> v]

\* Requests: a Content-Length that is no number, no body, bytes that decode
\* or json.loads refuses, or a JSON value.
BadLength == [k |-> "badlength"]

EmptyBody == [k |-> "empty"]

BadBytes == [k |-> "undecodable"]

Json(data) == [k |-> "json", data |-> data]

Missing == [t |-> "missing"]

JNull == [t |-> "null"]

JNum(n) == [t |-> "num", v |-> n]

JStr(s) == [t |-> "str", s |-> s]

JArray == [t |-> "array"]

JObject(v) == [t |-> "object", caf |-> v]

\* bool(v) of a JSON value, as `v or ""` tests it
Truthy(v) ==
    CASE v.t = "str" -> v.s # <<>>
      [] v.t = "num" -> v.v # 0
      [] v.t = "array" -> TRUE
      [] OTHER -> FALSE

Erro(fmt, args) == [erro |-> [fmt |-> fmt, args |-> args]]

\* _send_json(handler, status, payload): one response written
SendJson(out, status, payload) == Append(out, [status |-> status, payload |-> payload])

\* str(e) of the exceptions the try block can raise
ExcText(exc) ==
    CASE exc = "FileNotFoundError" -> <<"Planilha não encontrada: ">> \o PLANILHA
      [] exc = "IndexError"        -> <<"tuple index out of range">>
      [] exc = "JSONDecodeError"   -> <<"Expecting value: line 1 column 1 (char 0)">>
      [] exc = "ValueError"        -> <<"invalid literal for int() with base 10">>
      [] exc = "AttributeError"    -> <<"object has no attribute">>
      [] OTHER                     -> <<>>

Frame0 ==
    [caf |-> Unset, parsed |-> Unset, mes |-> Unset, ano |-> Unset,
     ids |-> Unset, combos |-> Unset, sent |-> <<>>, exc |-> "none",
     raised |-> FALSE]

Raise(fr, exc) == [fr EXCEPT !.exc = exc]

\* Lines 134-138: the expansion cs of the list r.ids and its response
Expand(fr, cs) ==
    IF cs = <<>>
    THEN [fr EXCEPT !.combos = List(cs), !.sent = SendJson(@, 404,
            Erro("IDENT já numérico e não presente no gabarito para este mês/ano.", <<>>))]
    ELSE [fr EXCEPT !.combos = List(cs), !.sent = SendJson(@, 200, [combos |-> cs])]

\* Lines 130-138 with r the outcome of the lookup
Lookup(fr, d, r) ==
    IF r.exc # "none" THEN Raise([fr EXCEPT !.ids = r], r.exc)
    ELSE IF r.ids = <<>>
    THEN [fr EXCEPT !.ids = r, !.sent = SendJson(@, 404,
            Erro("Nenhum identificador encontrado para {mes}/{ano}.", <<d.MES, d.ANO>>))]
    ELSE Expand([fr EXCEPT !.ids = r], gerar_combos(d, r.ids))

\* Lines 127-138: mes, ano, the lookup, the expansion and their responses
Resolve(fr, d, file) ==
    Lookup([fr EXCEPT !.mes = Str(d.MES), !.ano = Str(d.ANO)], d,
           ler_identificadores_unicos_ordenados(file, d.MES, d.ANO))

\* Lines 123-138 with p the result of parse_caf
Parsed(fr, p, file) ==
    IF p = None
    THEN [fr EXCEPT !.parsed = p, !.sent = SendJson(@, 400,
            Erro("Formato inválido. Ex.: BA032025.01.00**39367CAF", <<>>))]
    ELSE Resolve([fr EXCEPT !.parsed = p], p.d, file)

\* Lines 123-138 with caf_in the stripped text of the caf field
WithCaf(fr, caf_in, file) == Parsed([fr EXCEPT !.caf = Str(caf_in)], parse_caf(caf_in), file)

\* Lines 121-138: caf_in = (data.get("caf") or "").strip() raises on a value
\* that is true and no str
ParseStep(fr, v, file) ==
    IF Truthy(v) /\ v.t # "str" THEN Raise(fr, "AttributeError")
    ELSE WithCaf(fr, IF Truthy(v) THEN Strip(v.s) ELSE <<>>, file)

\* Lines 117-138: the try block; exc names the exception that ends it, if any
TryBlock(b, file) ==
    CASE b.k = "badlength"   -> Raise(Frame0, "ValueError")
      [] b.k = "undecodable" -> Raise(Frame0, "JSONDecodeError")
      [] b.k = "empty"       -> ParseStep(Frame0, Missing, file)
      [] OTHER ->
            IF b.data.t # "object" THEN Raise(Frame0, "AttributeError")
            ELSE ParseStep(Frame0, b.data.caf, file)

\* The exception classes of the model; each is a subclass of Exception
Exceptions ==
    {"FileNotFoundError", "IndexError", "JSONDecodeError", "ValueError", "AttributeError"}

\* Lines 140-143: the except clauses
Except(fr) ==
    IF fr.exc = "none" THEN fr
    ELSE IF fr.exc = "FileNotFoundError"
    THEN [fr EXCEPT !.sent = SendJson(@, 500, Erro("{e}", ExcText(fr.exc)))]
    ELSE IF fr.exc \in Exceptions
    THEN [fr EXCEPT !.sent = SendJson(@, 500, Erro("Erro interno: {e}", ExcText(fr.exc)))]
    ELSE [fr EXCEPT !.raised = TRUE]

\* Line 125 without its return: after the 400 response the handler goes on to
\* parsed["MES"], which raises TypeError on None, and answers once more
FallThrough(fr) ==
    IF fr.parsed = None
    THEN [fr EXCEPT !.sent = SendJson(@, 500,
            Erro("Erro interno: {e}", <<"'NoneType' object is not subscriptable">>))]
    ELSE fr

do_POST_NoReturn(b, file) == FallThrough(Except(TryBlock(b, file)))

\* The whole handler: the frame it ends with; raised iff an exception left it
do_POST(b, file) == Except(TryBlock(b, file))

-----------------------------------------------------------------------------
(* Inputs *)

\* The fields input codes are written from
FieldsOf(uf, m, ident) ==
    [UF |-> uf, MES |-> m, ANO |-> <<"2", "0", "2", "5">>, COD1 |-> <<"0", "1">>,
     COD2 |-> <<"0", "0">>, IDENT |-> ident, TAIL |-> <<"3", "9", "3", "6", "7">>]

Wildcards == {<<"*", "*">>, <<"X", "X">>}

FieldChoices ==
    {FieldsOf(<<"B", "A">>, <<"0", "3">>, i) : i \in Wildcards \cup {<<"0", "5">>, <<"0", "8">>}}
    \cup {FieldsOf(<<"S", "P">>, <<"0", "4">>, <<"*", "*">>)}

\* The code written from fields d, as the grammar of the input gives it
Build(d) ==
    Concat(<<d.UF, d.MES, d.ANO, <<".">>, d.COD1, <<".">>, d.COD2, d.IDENT, d.TAIL,
             <<"C", "A", "F">>>>)

Dict(d) == [tag |-> "dict", d |-> d, CAF_NORMALIZADO |-> Build(d)]

\* Strings that are no code: empty, blank, too short, a letter for a digit,
\* a four-digit tail, a three-character identifier slot
BadInputs ==
    {<<>>, <<" ", " ", " ">>, <<"B", "A", "0", "3">>,
     <<"B", "A", "X", "3", "2", "0", "2", "5", ".", "0", "1", ".", "0", "0", "*", "*", "3", "9", "3", "6", "7", "C", "A", "F">>,
     <<"B", "A", "0", "3", "2", "0", "2", "5", ".", "0", "1", ".", "0", "0", "*", "*", "3", "9", "3", "6", "C", "A", "F">>,
     <<"B", "A", "0", "3", "2", "0", "2", "5", ".", "0", "1", ".", "0", "0", "*", "*", "*", "3", "9", "3", "6", "7", "C", "A", "F">>}

Whitespace == {" ", "\t"}

\* Where whitespace is inserted: in front, after UF, before IDENT, at the end
InsertAt(s) == {i \in {0, 2, 14, Len(s)} : i <= Len(s)}

InsertChar(s, i, c) == SubSeq(s, 1, i) \o <<c>> \o SubSeq(s, i + 1, Len(s))

\* How many whitespace characters s holds
Spaces(s) == Cardinality({i \in DOMAIN s : IsSpace(s[i])})

\* How many lower-case letters s holds
Lowers(s) == Cardinality({i \in DOMAIN s : IsLower(s[i])})

\* Rows of the sheet: the cells of columns B, C and F
Triples ==
    {<<IntCell(3), IntCell(2025), IntCell(5)>>,
     <<IntCell(3), IntCell(2025), IntCell(12)>>,
     <<StrCell(<<"0", "3">>), StrCell(<<"2", "0", "2", "5">>), StrCell(<<" ", "7", " ">>)>>,
     <<IntCell(3), IntCell(2025), StrCell(<<"b", "a", "d">>)>>,
     <<IntCell(3), IntCell(2025), IntCell(130)>>,
     <<FloatCell(3, <<"0">>), StrCell(<<"0", "2", "0", "2", "5">>), FloatCell(5, <<"0">>)>>,
     <<IntCell(4), IntCell(2025), IntCell(9)>>,
     <<NoneCell, IntCell(2025), IntCell(8)>>,
     <<IntCell(3), StrCell(<<"A", "N", "O">>), IntCell(6)>>}

Widths == {2, 5, 6}

\* A row of w cells: month in column 2, year in column 3, identifier in column 6
RowOf(w, t) ==
    [i \in 1..w |-> IF i = 2 THEN t[1] ELSE IF i = 3 THEN t[2] ELSE IF i = 6 THEN t[3]
                    ELSE NoneCell]

Header == <<StrCell(<<"M", "E", "S">>), StrCell(<<"A", "N", "O">>), StrCell(<<"I", "D">>)>>

Sheet(w, ts) == File([i \in DOMAIN ts |-> RowOf(w, ts[i])])

\* The sheet of the specification's example: identifiers 5, 12, 5, "bad", 130, 7
ExampleSheet ==
    Sheet(6, <<Header,
               <<IntCell(3), IntCell(2025), IntCell(5)>>,
               <<IntCell(3), IntCell(2025), IntCell(12)>>,
               <<IntCell(3), IntCell(2025), IntCell(5)>>,
               <<IntCell(3), IntCell(2025), StrCell(<<"b", "a", "d">>)>>,
               <<IntCell(3), IntCell(2025), IntCell(130)>>,
               <<IntCell(3), IntCell(2025), IntCell(7)>>>>)

Periods == {[mes |-> <<"0", "3">>, ano |-> <<"2", "0", "2", "5">>], [mes |-> <<"0", "4">>, ano |-> <<"2", "0", "2", "5">>]}

IdPool == {<<"0", "0">>, <<"0", "5">>, <<"1", "2">>}

\* The files the handler is run against
HandlerFiles ==
    {NoFile,
     File(<<>>),
     ExampleSheet,
     Sheet(6, <<Header, <<IntCell(4), IntCell(2025), IntCell(9)>>>>),
     Sheet(6, <<<<IntCell(3), IntCell(2025), IntCell(1)>>>>),
     Sheet(5, <<Header, <<IntCell(3), IntCell(2025), IntCell(5)>>>>),
     Sheet(2, <<Header, <<IntCell(3), IntCell(2025), IntCell(5)>>>>)}

CafInputs ==
    {<<"B", "A", "0", "3", "2", "0", "2", "5", ".", "0", "1", ".", "0", "0", "*", "*", "3", "9", "3", "6", "7", "C", "A", "F">>,
     <<" ", "b", "a", "0", "3", "2", "0", "2", "5", ".", "0", "1", ".", "0", "0", "x", "x", "3", "9", "3", "6", "7", "c", "a", "f", " ">>,
     <<"B", "A", "0", "3", "2", "0", "2", "5", ".", "0", "1", ".", "0", "0", " ", "*", "*", " ", "3", "9", "3", "6", "7", "C", "A", "F">>,
     <<"B", "A", "0", "3", "2", "0", "2", "5", ".", "0", "1", ".", "0", "0", "0", "5", "3", "9", "3", "6", "7", "C", "A", "F">>,
     <<"B", "A", "0", "3", "2", "0", "2", "5", ".", "0", "1", ".", "0", "0", "0", "8", "3", "9", "3", "6", "7", "C", "A", "F">>,
     <<"S", "P", "0", "4", "2", "0", "2", "5", ".", "0", "1", ".", "0", "0", "*", "*", "3", "9", "3", "6", "7", "C", "A", "F">>,
     <<"B", "A", "0", "3">>,
     <<>>}

Bodies ==
    {Json(JObject(JStr(c))) : c \in CafInputs}
    \cup {BadLength, EmptyBody, BadBytes, Json(JArray), Json(JNull), Json(JObject(Missing)),
          Json(JObject(JNull)), Json(JObject(JNum(0))), Json(JObject(JNum(5)))}

HistFiles ==
    {NoFile, ExampleSheet, Sheet(6, <<Header, <<IntCell(3), IntCell(2025), IntCell(9)>>>>)}

HistBodies ==
    {Json(JObject(JStr(<<"B", "A", "0", "3", "2", "0", "2", "5", ".", "0", "1", ".", "0", "0", "*", "*", "3", "9", "3", "6", "7", "C", "A", "F">>))),
     Json(JObject(JStr(<<"B", "A", "0", "3", "2", "0", "2", "5", ".", "0", "1", ".", "0", "0", "0", "5", "3", "9", "3", "6", "7", "C", "A", "F">>))),
     Json(JObject(JNum(5)))}

-----------------------------------------------------------------------------
(* The POST handler against a file that may be replaced between requests *)

Idle ==
    /\ body = Unset /\ snap = Unset /\ src = Unset /\ caf = Unset /\ parsed = Unset
    /\ mes = Unset /\ ano = Unset /\ ids = Unset /\ combos = Unset
    /\ sent = <<>> /\ raised = FALSE /\ seen = {}

Init == planilha \in HandlerFiles /\ Idle

\* The frame fr of one POST with body b becomes the state
Returns(b, fr) ==
    /\ body' = b
    /\ snap' = planilha
    /\ caf' = fr.caf
    /\ parsed' = fr.parsed
    /\ mes' = fr.mes
    /\ ano' = fr.ano
    /\ ids' = fr.ids
    /\ combos' = fr.combos
    /\ sent' = fr.sent
    /\ raised' = fr.raised
    /\ UNCHANGED <<planilha, src>>

Answer(b) == Returns(b, do_POST(b, planilha))

Post == \E b \in Bodies : Answer(b) /\ UNCHANGED seen

\* The file is deployed, replaced or removed
ReplacePlanilha ==
    /\ \E f \in HandlerFiles \ {planilha} : planilha' = f
    /\ UNCHANGED <<body, snap, src, caf, parsed, mes, ano, ids, combos, sent, raised, seen>>

Next == Post \/ ReplacePlanilha

Spec == Init /\ [][Next]_vars

-----------------------------------------------------------------------------
(* parse_caf on strings written from a code by inserting whitespace and
   changing the case of letters *)

Rest ==
    /\ planilha = NoFile /\ body = Unset /\ snap = Unset
    /\ sent = <<>> /\ raised = FALSE /\ seen = {}

InitParse ==
    /\ \/ \E f \in FieldChoices : src = Dict(f) /\ caf = Str(Build(f))
       \/ \E t \in BadInputs : src = None /\ caf = Str(t)
    /\ parsed = Unset /\ mes = Unset /\ ano = Unset /\ ids = Unset /\ combos = Unset
    /\ Rest

Retyped(t) ==
    /\ caf' = Str(t)
    /\ parsed' = Unset
    /\ UNCHANGED <<planilha, body, snap, src, mes, ano, ids, combos, sent, raised, seen>>

InsertWhitespace ==
    /\ Spaces(caf.s) < MaxIns
    /\ \E i \in InsertAt(caf.s) : \E c \in Whitespace : Retyped(InsertChar(caf.s, i, c))

ChangeCase ==
    /\ Lowers(caf.s) < MaxFlips
    /\ \E i \in DOMAIN caf.s :
          /\ IsUpper(caf.s[i])
          /\ Retyped([caf.s EXCEPT ![i] = LowerChar(@)])

Parse ==
    /\ parsed = Unset
    /\ parsed' = parse_caf(caf.s)
    /\ UNCHANGED <<planilha, body, snap, src, caf, mes, ano, ids, combos, sent, raised, seen>>

NextParse == InsertWhitespace \/ ChangeCase \/ Parse

SpecParse == InitParse /\ [][NextParse]_vars

-----------------------------------------------------------------------------
(* ler_identificadores_unicos_ordenados on sheets written row by row *)

InitLer ==
    /\ planilha \in {NoFile, File(<<>>), ExampleSheet}
    /\ \E q \in Periods : mes = Str(q.mes) /\ ano = Str(q.ano)
    /\ src = Unset /\ caf = Unset /\ parsed = Unset /\ ids = Unset /\ combos = Unset
    /\ body = Unset /\ snap = Unset /\ sent = <<>> /\ raised = FALSE /\ seen = {}

\* A row is written under the last one; a sheet keeps the width of its rows
AppendRow ==
    /\ planilha.exists
    /\ Len(planilha.rows) < MaxRows
    /\ \E w \in Widths : \E t \in Triples \cup {Header} :
          /\ planilha.rows # <<>> => w = Len(planilha.rows[1])
          /\ planilha' = File(Append(planilha.rows, RowOf(w, t)))
    /\ ids' = Unset
    /\ UNCHANGED <<body, snap, src, caf, parsed, mes, ano, combos, sent, raised, seen>>

Ler ==
    /\ ids = Unset
    /\ ids' = ler_identificadores_unicos_ordenados(planilha, mes.s, ano.s)
    /\ UNCHANGED <<planilha, body, snap, src, caf, parsed, mes, ano, combos, sent, raised, seen>>

NextLer == AppendRow \/ Ler

SpecLer == InitLer /\ [][NextLer]_vars

-----------------------------------------------------------------------------
(* gerar_combos on any parsed code and any list of identifiers *)

NoIds == [exc |-> "none", ids |-> <<>>, reads |-> 0]

InitCombos ==
    /\ \E f \in FieldChoices : parsed = Dict(f)
    /\ ids = NoIds
    /\ combos = Unset /\ src = Unset /\ caf = Unset /\ mes = Unset /\ ano = Unset
    /\ Rest

AppendId ==
    /\ Len(ids.ids) < MaxIds
    /\ \E x \in IdPool : ids' = [ids EXCEPT !.ids = Append(@, x)]
    /\ combos' = Unset
    /\ UNCHANGED <<planilha, body, snap, src, caf, parsed, mes, ano, sent, raised, seen>>

Gerar ==
    /\ combos = Unset
    /\ combos' = List(gerar_combos(parsed.d, ids.ids))
    /\ UNCHANGED <<planilha, body, snap, src, caf, parsed, mes, ano, ids, sent, raised, seen>>

NextCombos == AppendId \/ Gerar

SpecCombos == InitCombos /\ [][NextCombos]_vars

-----------------------------------------------------------------------------
(* The exchanges of a run of requests, remembered *)

InitHist == planilha \in HistFiles /\ Idle

Exchange(b, fr) == [body |-> b, snap |-> planilha, sent |-> fr.sent, raised |-> fr.raised]

Remembered(b, fr) == Returns(b, fr) /\ seen' = seen \cup {Exchange(b, fr)}

HistPost == \E b \in HistBodies : Remembered(b, do_POST(b, planilha))

HistReplace ==
    /\ \E f \in HistFiles \ {planilha} : planilha' = f
    /\ UNCHANGED <<body, snap, src, caf, parsed, mes, ano, ids, combos, sent, raised, seen>>

NextHist == HistPost \/ HistReplace

SpecHist == InitHist /\ [][NextHist]_vars

-----------------------------------------------------------------------------
(* Properties of parse_caf, checked under SpecParse *)

\* The input string was written from a code of the grammar
FromCode == src.tag = "dict"

\* C5: whenever parse_caf returns a record, the concatenation
\* UF+MES+ANO+"."+COD1+"."+COD2+IDENT+TAIL+"CAF" of its fields is the
\* record's CAF_NORMALIZADO.
C5_RoundTrip ==
    parsed.tag = "dict" =>
        parsed.d.UF \o parsed.d.MES \o parsed.d.ANO \o <<".">> \o parsed.d.COD1
            \o <<".">> \o parsed.d.COD2 \o parsed.d.IDENT \o parsed.d.TAIL
            \o <<"C", "A", "F">>
        = parsed.CAF_NORMALIZADO

\* A record was returned for a string with whitespace in it and a letter in
\* lower case
C5_Witness ==
    /\ parsed.tag = "dict"
    /\ Spaces(caf.s) > 0
    /\ Lowers(caf.s) > 0

\* C6: for a code c of the grammar and a string s written from c by changing
\* the case of letters and inserting whitespace anywhere, parse_caf(s) is
\* parse_caf(c): the same fields and the same normalized string.
C6_Insensitive ==
    (FromCode /\ parsed # Unset) =>
        /\ parsed = parse_caf(Build(src.d))
        /\ parsed.tag = "dict"
        /\ parsed.d = src.d
        /\ parsed.CAF_NORMALIZADO = Build(src.d)

\* The whitespace of s that str.strip() leaves is all U+0020
OnlyBlanksInside(s) == \A i \in DOMAIN Strip(s) : IsSpace(Strip(s)[i]) => Strip(s)[i] = " "

\* C6 holds of the strings whose whitespace, apart from the ends, is the
\* space character: what replace(" ", "") removes.
C6_SpacesOnly ==
    (FromCode /\ parsed # Unset /\ OnlyBlanksInside(caf.s)) =>
        /\ parsed.tag = "dict"
        /\ parsed.d = src.d
        /\ parsed.CAF_NORMALIZADO = Build(src.d)

-----------------------------------------------------------------------------
(* Properties of ler_identificadores_unicos_ordenados, checked under SpecLer *)

\* The value of column i of a row; a column the row lacks has no value
Cell(row, i) == IF i <= Len(row) THEN row[i] ELSE NoneCell

\* The data rows of the sheet: all but the header
DataRows(file) == {i \in DOMAIN file.rows : i >= 2}

\* The numbers 0..99 some data row of month m and year a has as identifier
Identifiers(file, m, a) ==
    {n \in 0..99 : \E i \in DataRows(file) :
        /\ MesOk(Cell(file.rows[i], 2)) = Str(m)
        /\ AnoOk(Cell(file.rows[i], 3)) = Str(a)
        /\ IntOfStr(PyStr(Cell(file.rows[i], 6))) = Ok(n)}

Ascending(l) == \A i, j \in DOMAIN l : i < j => IntOfStr(l[i]).v < IntOfStr(l[j]).v

\* The list l is the identifiers of the set ns, each as two digits, ascending
\* and without duplicates
ListsExactly(l, ns) ==
    /\ Range(l) = {Format02d(n) : n \in ns}
    /\ \A i \in DOMAIN l : Len(l[i]) = 2
    /\ Ascending(l)

\* C2: for every sheet and requested (month, year) the call raises nothing and
\* returns exactly the two-digit identifiers of the data rows (header skipped)
\* whose month and year coerce to the request and whose identifier coerces to
\* an integer in 0..99, without duplicates, in ascending numeric order.
C2_ListIdentifiers ==
    (ids # Unset /\ planilha.exists) =>
        /\ ids.exc = "none"
        /\ ListsExactly(ids.ids, Identifiers(planilha, mes.s, ano.s))

\* Every data row reaches to column C
HasMonthAndYear(file) == \A i \in DataRows(file) : Len(file.rows[i]) >= 3

\* C2 holds of the sheets whose data rows hold a month and a year column.
C2_WideSheets ==
    (ids # Unset /\ planilha.exists /\ HasMonthAndYear(planilha)) =>
        /\ ids.exc = "none"
        /\ ListsExactly(ids.ids, Identifiers(planilha, mes.s, ano.s))

\* The example of the specification: identifiers 5, 12, 5, "bad", 130, 7 of
\* 03/2025 give 05, 07, 12.
C2_Example ==
    (ids # Unset /\ planilha = ExampleSheet /\ mes.s = <<"0", "3">>) =>
        ids.ids = <<<<"0", "5">>, <<"0", "7">>, <<"1", "2">>>>

-----------------------------------------------------------------------------
(* Properties of gerar_combos, checked under SpecCombos *)

\* prefix + x + tail, prefix = UF+MES+ANO+"."+COD1+"."+COD2, tail = TAIL+"CAF"
ComboOf(d, x) ==
    d.UF \o d.MES \o d.ANO \o <<".">> \o d.COD1 \o <<".">> \o d.COD2 \o x \o d.TAIL
        \o <<"C", "A", "F">>

\* The positions of a code outside its identifier slot
OutsideSlot == (1..CodeLen) \ {15, 16}

\* C3: with an IDENT of two literal digits gerar_combos returns the one combo
\* prefix+IDENT+tail if that exact string is a member of the identifier list
\* and the empty list otherwise; never more than one combo, never another
\* identifier.
C3_Literal ==
    (combos # Unset /\ IsTwoDigits(parsed.d.IDENT)) =>
        /\ (\E i \in DOMAIN ids.ids : ids.ids[i] = parsed.d.IDENT)
              => combos.v = <<ComboOf(parsed.d, parsed.d.IDENT)>>
        /\ (\A i \in DOMAIN ids.ids : ids.ids[i] # parsed.d.IDENT) => combos.v = <<>>
        /\ Len(combos.v) <= 1

\* The literal is found in a list that holds other identifiers too, some twice
C3_Witness ==
    /\ combos # Unset
    /\ IsTwoDigits(parsed.d.IDENT)
    /\ Len(combos.v) = 1
    /\ Len(ids.ids) = 3
    /\ Cardinality(Range(ids.ids)) = 2

\* C4: with a wildcard IDENT (** or XX) gerar_combos returns a list as long as
\* the identifier list whose i-th element is prefix + identifiers[i] + tail:
\* the order of the identifiers is kept and the combos differ only in the
\* identifier slot.
C4_Wildcard ==
    (combos # Unset /\ parsed.d.IDENT \in Wildcards) =>
        /\ Len(combos.v) = Len(ids.ids)
        /\ \A i \in DOMAIN ids.ids :
              /\ combos.v[i] = ComboOf(parsed.d, ids.ids[i])
              /\ SubSeq(combos.v[i], 15, 16) = ids.ids[i]
              /\ \A k \in OutsideSlot : combos.v[i][k] = parsed.CAF_NORMALIZADO[k]

\* Three identifiers in ascending order are expanded under the marker XX
C4_Witness ==
    /\ combos # Unset
    /\ parsed.d.IDENT = <<"X", "X">>
    /\ ids.ids = <<<<"0", "0">>, <<"0", "5">>, <<"1", "2">>>>
    /\ Len(combos.v) = 3

-----------------------------------------------------------------------------
(* Properties of do_POST, checked under Spec *)

Answered == body # Unset

\* The body is a JSON object whose field caf is a string
StringCaf ==
    /\ Answered
    /\ body.k = "json"
    /\ body.data.t = "object"
    /\ body.data.caf.t = "str"

Response(status, fmt, args) == [status |-> status, payload |-> Erro(fmt, args)]

R400 == Response(400, "Formato inválido. Ex.: BA032025.01.00**39367CAF", <<>>)

R404Period ==
    Response(404, "Nenhum identificador encontrado para {mes}/{ano}.",
             <<parsed.d.MES, parsed.d.ANO>>)

R404Literal ==
    Response(404, "IDENT já numérico e não presente no gabarito para este mês/ano.", <<>>)

\* C1: for a body that is a JSON object with a string caf, the file present,
\* the response is decided in this order: 400 if parse_caf returned None, the
\* file not read; else 404 "Nenhum identificador..." if the lookup returned an
\* empty list, wildcard or literal; else 404 "IDENT já numérico..." if
\* gerar_combos returned an empty list; else 200 with the combos, never empty.
C1_Order ==
    (StringCaf /\ snap.exists) =>
        IF parsed = None THEN sent = <<R400>> /\ ids = Unset
        ELSE /\ ids # Unset
             /\ ids.exc = "none"
             /\ IF ids.ids = <<>> THEN sent = <<R404Period>> /\ combos = Unset
                ELSE IF combos.v = <<>> THEN sent = <<R404Literal>>
                ELSE sent = <<[status |-> 200, payload |-> [combos |-> combos.v]]>>

\* C1 holds when the data rows of the file hold a month and a year column.
C1_OrderWideSheets ==
    (StringCaf /\ snap.exists /\ HasMonthAndYear(snap)) =>
        IF parsed = None THEN sent = <<R400>> /\ ids = Unset
        ELSE /\ ids # Unset
             /\ ids.exc = "none"
             /\ IF ids.ids = <<>> THEN sent = <<R404Period>> /\ combos = Unset
                ELSE IF combos.v = <<>> THEN sent = <<R404Literal>>
                ELSE sent = <<[status |-> 200, payload |-> [combos |-> combos.v]]>>

\* The combos of the 200 responses sent
Sent200 == {i \in DOMAIN sent : sent[i].status = 200}

\* C7: every combo of a 200 response is a code of the grammar whose IDENT
\* slot holds two digits (never ** or XX), has no space in it, and agrees with
\* the normalized request code everywhere outside the IDENT slot.
C7_WellFormed ==
    \A i \in Sent200 : \A j \in DOMAIN sent[i].payload.combos :
        /\ MatchesCode(sent[i].payload.combos[j])
        /\ IsDigit(sent[i].payload.combos[j][15])
        /\ IsDigit(sent[i].payload.combos[j][16])
        /\ \A k \in DOMAIN sent[i].payload.combos[j] : sent[i].payload.combos[j][k] # " "
        /\ \A k \in OutsideSlot : sent[i].payload.combos[j][k] = parsed.CAF_NORMALIZADO[k]

\* A 200 response with three combos to a request typed in lower case with
\* spaces around
C7_Witness ==
    /\ Sent200 # {}
    /\ Len(combos.v) = 3
    /\ caf.s # parsed.CAF_NORMALIZADO

\* The text args holds the configured path
HoldsPath(args) == \E k \in DOMAIN args : SubSeq(args, k, k + Len(PLANILHA) - 1) = PLANILHA

\* C8: with the file missing the lookup fails with FileNotFoundError before
\* reading a row, a POST whose caf parses is answered 500 with an erro text
\* that holds the configured path, and no 200 or 404 is sent.
C8_MissingFile ==
    (Answered /\ ~snap.exists) =>
        /\ \A i \in DOMAIN sent : sent[i].status \notin {200, 404}
        /\ parsed.tag = "dict" =>
              /\ ids = [exc |-> "FileNotFoundError", ids |-> <<>>, reads |-> 0]
              /\ Len(sent) = 1
              /\ sent[1].status = 500
              /\ HoldsPath(sent[1].payload.erro.args)

C8_Witness ==
    /\ Answered
    /\ ~snap.exists
    /\ parsed.tag = "dict"
    /\ Len(sent) = 1
    /\ sent[1].status = 500

\* The request fails before parse_caf: a Content-Length that is no number,
\* bytes that are no JSON text, a JSON value that is no object, a caf that is
\* true and no string
Unreadable ==
    \/ body.k \in {"badlength", "undecodable"}
    \/ body.k = "json" /\ body.data.t # "object"
    \/ body.k = "json" /\ body.data.t = "object" /\ Truthy(body.data.caf)
          /\ body.data.caf.t # "str"

Internal(r) == r.status = 500 /\ r.payload.erro.fmt = "Erro interno: {e}"

\* C10: every POST ends with exactly one response sent and no exception
\* leaving do_POST; each failure is reported once with its status: 400 for an
\* invalid format, 404 for no identifiers and for a literal not found, 500 with
\* the error's text for a missing file and for any other exception.
C10_OneResponse ==
    Answered =>
        /\ Len(sent) = 1
        /\ ~raised
        /\ sent[1].status \in {200, 400, 404, 500}
        /\ Unreadable => Internal(sent[1]) /\ sent[1].payload.erro.args # <<>>
        /\ parsed = None => sent[1].status = 400
        /\ (ids # Unset /\ ids.exc = "FileNotFoundError") =>
              sent[1] = Response(500, "{e}", <<"Planilha não encontrada: ">> \o PLANILHA)
        /\ (ids # Unset /\ ids.exc \notin {"none", "FileNotFoundError"}) => Internal(sent[1])
        /\ (ids # Unset /\ ids.exc = "none" /\ ids.ids = <<>>) => sent[1].status = 404
        /\ (combos # Unset /\ combos.v = <<>>) => sent[1].status = 404
        /\ sent[1].status = 200 => combos # Unset /\ combos.v # <<>>

\* A request whose caf is a number is answered 500 once
C10_Witness ==
    /\ Answered
    /\ Unreadable
    /\ body.k = "json"
    /\ Len(sent) = 1
    /\ sent[1].status = 500

-----------------------------------------------------------------------------
(* Properties of a run of requests, checked under SpecHist *)

=============================================================================
